---- MODULE Spec2Model ----
(***************************************************************************)
(* A model of the streaming audio analyzer (src/audio_analyzer.py): one    *)
(* AudioAnalyzer object, its process_audio and reset operations, and the   *)
(* clock it reads.                                                         *)
(*                                                                         *)
(* Units.  Floating-point quantities are kept as scaled integers:          *)
(*   time        ticks of 0.05 s        (0.25 s = 5, 0.3 s = 6, 3 s = 60)  *)
(*   tempo       hundredths of a BPM    (60 BPM = 6000, 200 BPM = 20000)   *)
(*   amplitude, energy, magnitude, level, gain, ratio   thousandths        *)
(*   weighted energy (audio_buffer)     ten-thousandths                    *)
(* A non-finite float (NaN) is the value NaN below; every arithmetic       *)
(* helper propagates it and every comparison with it is false, as in IEEE  *)
(* arithmetic.  All finite quantities of the analyzer are >= 0.            *)
(*                                                                         *)
(* numpy's primitives (rfft, sum of squares, mean, argmax of the           *)
(* autocorrelation) are library code.  A chunk is represented by the       *)
(* values those primitives yield on it: its length, the energy of its      *)
(* first hop, its RMS and peak, the magnitude spectrum of its windowed     *)
(* analysis buffer at a fixed sample of FFT bins (one per region of the    *)
(* frequency axis), and the lag at which its envelope autocorrelation      *)
(* peaks.                                                                  *)
(* The Hann-windowed spectrum of a chunk with a nonzero sample is nonzero   *)
(* in every bin (leakage), and a NaN sample makes every bin NaN; the       *)
(* chunks of the model are chosen accordingly.                             *)
(***************************************************************************)
EXTENDS Integers, Sequences, FiniteSets, TLC

VARIABLES
    an,       \* the AudioAnalyzer object: a record of its fields
    now,      \* the last reading of time.time(), in ticks
    calls,    \* number of chunks analyzed so far (bounded per specification)
    ret,      \* what the last operation returned or raised
    obs,      \* history observed by the properties (beats returned, resets)
    twin,     \* <<>>, or <<a>>: a freshly constructed analyzer started at the
              \* last reset and fed the same chunks and clock readings since
    capture,  \* the AudioCapture object and its reader (src/audio_capture.py)
    built,    \* how the last AudioAnalyzer(...) call ended: the exception it
              \* raised, or the settings of the analyzer it constructed
    loop      \* the main loop of src/main.py

vars == <<an, now, calls, ret, obs, twin, capture, built, loop>>

----------------------------------------------------------------------------
(* Bounds of the model *)

\* chunks analyzed in one behaviour of Spec
MaxCalls == 3

\* iterations of the main loop in one behaviour of SpecMain
MaxFrames == 3

\* chunks analyzed in one behaviour of SpecTempo
MaxTempoCalls == 4

\* audio callbacks in one behaviour of SpecCapture
MaxCallbacks == 4

----------------------------------------------------------------------------
(* Configuration (src/config.py) *)

sample_rate == 44100
hop_size == 512
fft_size == 2048
\* 0.3
target_rms == 300
\* AudioConfig.autocorr_interval; the default is 5. The model runs the
\* analyzer with a Config whose interval is 2, so that the throttled
\* autocorrelation branch is reached within MaxTempoCalls chunks.
autocorr_interval == 2
\* 60.0 and 200.0 BPM
min_bpm == 6000
max_bpm == 20000
\* 0.25 s
min_beat_interval == 5
beat_history_size == 20
bpm_history_size == 10
\* maxlen of audio_buffer and of spectrum_buffer
audio_buffer_size == 2048
spectrum_buffer_size == 100
\* the timeout of audio_queue.get in read_chunk, 1.0 s
read_timeout == 20

\* (lower_hz, upper_hz) of the seven bands
sub_bass_range == <<20, 60>>
bass_range == <<60, 250>>
low_mid_range == <<250, 500>>
mid_range == <<500, 2000>>
high_mid_range == <<2000, 4000>>
treble_range == <<4000, 10000>>
high_treble_range == <<10000, 20000>>

BandNames ==
    <<"sub_bass", "bass", "low_mid", "mid", "high_mid", "treble", "high_treble">>

BandRange(b) ==
    CASE b = "sub_bass" -> sub_bass_range
      [] b = "bass" -> bass_range
      [] b = "low_mid" -> low_mid_range
      [] b = "mid" -> mid_range
      [] b = "high_mid" -> high_mid_range
      [] b = "treble" -> treble_range
      [] b = "high_treble" -> high_treble_range

----------------------------------------------------------------------------
(* Floating-point helpers *)

NaN == 0 - 1

IsNaN(x) == x < 0

\* x > y on floats: false when either side is NaN
FGt(x, y) == ~IsNaN(x) /\ ~IsNaN(y) /\ x > y

FAdd(x, y) == IF IsNaN(x) \/ IsNaN(y) THEN NaN ELSE x + y

\* k * x for a constant k >= 0
FMul(k, x) == IF IsNaN(x) THEN NaN ELSE k * x

\* x / d for a constant d > 0, rounded down
FDiv(x, d) == IF IsNaN(x) THEN NaN ELSE x \div d

Min(x, y) == IF x < y THEN x ELSE y

Max(x, y) == IF x > y THEN x ELSE y

RECURSIVE FSum(_)
FSum(s) == IF s = <<>> THEN 0 ELSE FAdd(Head(s), FSum(Tail(s)))

RECURSIVE Sum(_)
Sum(s) == IF s = <<>> THEN 0 ELSE Head(s) + Sum(Tail(s))

\* the last k elements of s (all of s when it is shorter): list(s)[-k:]
LastN(s, k) == IF Len(s) <= k THEN s ELSE SubSeq(s, Len(s) - k + 1, Len(s))

\* np.clip(x, lo, hi)
Clip(x, lo, hi) == Min(Max(x, lo), hi)

\* a deque without maxlen: it keeps every entry
DequeAppendUnbounded(q, x, maxlen) == Append(q, x)

\* collections.deque(maxlen=maxlen).append(x): a full deque drops its oldest
DequeAppend(q, x, maxlen) ==
    IF Len(q) >= maxlen THEN Tail(q) \o <<x>> ELSE Append(q, x)

RECURSIVE Insert(_, _)
Insert(x, s) ==
    IF s = <<>> THEN <<x>>
    ELSE IF x <= Head(s) THEN <<x>> \o s
    ELSE <<Head(s)>> \o Insert(x, Tail(s))

RECURSIVE Sorted(_)
Sorted(s) == IF s = <<>> THEN <<>> ELSE Insert(Head(s), Sorted(Tail(s)))

\* twice np.median(s), for non-empty s
Median2(s) ==
    LET o == Sorted(s)
        n == Len(s)
    IN IF n % 2 = 1 THEN 2 * o[(n + 1) \div 2] ELSE o[n \div 2] + o[n \div 2 + 1]

----------------------------------------------------------------------------
(* The spectrum *)

\* len(np.fft.rfft(x, n=fft_size))
NBins == fft_size \div 2 + 1

\* The FFT bins the model tracks, by index k; bin k is centred at
\* k * sample_rate / fft_size Hz (np.fft.rfftfreq):
\*   2: 43 Hz     5: 108 Hz    16: 345 Hz    46: 991 Hz
\*   139: 2993 Hz   325: 6998 Hz   700: 15073 Hz   1000: 21533 Hz
BinIndex == <<2, 5, 16, 46, 139, 325, 700, 1000>>

Bins == 1..Len(BinIndex)

\* the mask of _get_band_energy for bin k of an n-point FFT at rate sr:
\* freq_range[0] <= freqs[k] <= freq_range[1], with freqs[k] = k * sr / n
\* (np.fft.rfftfreq), without the division
InRangeAt(k, freq_range, sr, n) ==
    /\ k * sr >= freq_range[1] * n
    /\ k * sr <= freq_range[2] * n

\* the mask for the analyzer of the default configuration
InRange(k, freq_range) == InRangeAt(k, freq_range, sample_rate, fft_size)

RECURSIVE MaskedSum(_, _, _)
MaskedSum(magnitude, freq_range, i) ==
    IF i > Len(magnitude) THEN 0
    ELSE IF InRange(BinIndex[i], freq_range)
         THEN FAdd(magnitude[i], MaskedSum(magnitude, freq_range, i + 1))
         ELSE MaskedSum(magnitude, freq_range, i + 1)

\* AudioAnalyzer._get_band_energy
get_band_energy(magnitude, freq_range) == MaskedSum(magnitude, freq_range, 1)

RECURSIVE PositiveDiffSum(_, _, _)
PositiveDiffSum(magnitude, prev, i) ==
    IF i > Len(magnitude) THEN 0
    ELSE LET d == IF IsNaN(magnitude[i]) \/ IsNaN(prev[i]) THEN NaN
                  ELSE Max(magnitude[i] - prev[i], 0)
         IN FAdd(d, PositiveDiffSum(magnitude, prev, i + 1))

\* spectral flux of process_audio: prev_magnitude is <<>> (None) or <<m>>
spectral_flux(magnitude, prev_magnitude) ==
    IF prev_magnitude # <<>> /\ Len(prev_magnitude[1]) = Len(magnitude)
    THEN PositiveDiffSum(magnitude, prev_magnitude[1], 1)
    ELSE 0

\* np.linspace(0, len(positive_magnitude) - 1, 512, dtype=int): the bins kept
\* in the downsampled spectrum
spectrum_indices == {(i * (NBins - 1)) \div 511 : i \in 0..511}

\* positive_magnitude[spectrum_indices], at the tracked bins
spectrum_data(magnitude) ==
    LET kept == SelectSeq([i \in Bins |-> i], LAMBDA i : BinIndex[i] \in spectrum_indices)
    IN [j \in 1..Len(kept) |-> magnitude[kept[j]]]

RECURSIVE WeightedSum(_, _)
WeightedSum(magnitude, i) ==
    IF i > Len(magnitude) THEN 0
    ELSE FAdd(FMul(BinIndex[i], magnitude[i]), WeightedSum(magnitude, i + 1))

\* AudioAnalyzer._calculate_spectral_centroid, in Hz: the magnitude-weighted
\* mean bin (rounded down to a whole bin) times the bin width
calculate_spectral_centroid(magnitude) ==
    LET total == FSum(magnitude)
    IN IF total = 0 THEN 0
       ELSE IF IsNaN(total) THEN NaN
       ELSE ((WeightedSum(magnitude, 1) \div total) * sample_rate) \div fft_size

----------------------------------------------------------------------------
(* Chunks: the argument of process_audio *)

\* what the samples argument is:
\*   "none"       None
\*   "empty"      a sized object of length 0
\*   "unsized"    an object without len() (a generator, an arbitrary object)
\*   "malformed"  a non-empty sized object np.asarray cannot convert
\*   "samples"    a non-empty array of floats
Samples(n, energy, rms, peak, mag, peak_idx) ==
    [kind |-> "samples", n |-> n, energy |-> energy, rms |-> rms, peak |-> peak,
     mag |-> mag, peak_idx |-> peak_idx]

NoSamples(kind) ==
    [kind |-> kind, n |-> 0, energy |-> 0, rms |-> 0, peak |-> 0,
     mag |-> <<>>, peak_idx |-> 0]

\* 1024 zeros
Silence == Samples(1024, 0, 0, 0, <<0, 0, 0, 0, 0, 0, 0, 0>>, 0)

\* 1024 samples of a loud low-frequency hit
KickA == Samples(1024, 50000, 300, 900, <<20000, 100000, 3000, 5000, 200, 50, 10, 5>>, 0)

\* 22528 samples (22 capture buffers) of a hit with more mid and treble; the
\* autocorrelation of its envelope peaks at lag 86
KickB == Samples(22528, 40000, 250, 800, <<500, 60000, 4000, 80000, 900, 10000, 40, 10>>, 86)

\* 22528 samples of a hit under a roll of short bursts 6528 samples apart; the
\* autocorrelation of its envelope peaks at lag 51 (51 hops of 128 samples)
Roll == Samples(22528, 45000, 280, 850, <<600, 70000, 5000, 60000, 1200, 9000, 60, 12>>, 51)

\* 256 samples (shorter than a hop) of a tone between the bass and mid
\* ranges; the window leaks a little of it into every other bin
Hum == Samples(256, 10000, 200, 300, <<5, 20, 50000, 30, 10, 5, 2, 1>>, 0)

\* 1024 samples, at least one of them NaN: every sum over the samples and
\* every FFT bin is NaN
NaNChunk == Samples(1024, NaN, NaN, NaN, <<NaN, NaN, NaN, NaN, NaN, NaN, NaN, NaN>>, 0)

ValidChunks == {Silence, KickA, KickB, Hum, NaNChunk}

InvalidChunks == {NoSamples("none"), NoSamples("empty"), NoSamples("unsized"),
                  NoSamples("malformed")}

\* the chunks of the tempo specifications
TempoChunks == {Silence, KickA, KickB}

\* hits, for a beat at every call
SteadyChunks == {KickA, Roll}

\* calls in one behaviour of SpecSteady
MaxSteadyCalls == 12

\* 0.5 s, in ticks
SteadyDelta == 10

\* clock advance, in ticks, between two calls: 0.1 s, 0.5 s, 3.5 s
Deltas == {2, 10, 70}

\* the two short advances
ShortDeltas == {2, 10}

----------------------------------------------------------------------------
(* The analyzer *)

\* AudioAnalyzer.__init__: the fields of a freshly constructed analyzer.
\* An Optional field is <<>> (None) or a one-element sequence.
NewAnalyzer ==
    [beat_times |-> <<>>,
     current_bpm |-> 0,
     last_beat_time |-> <<>>,
     audio_buffer |-> <<>>,
     prev_magnitude |-> <<>>,
     prev_samples |-> <<>>,
     bpm_history |-> <<>>,
     autocorr_frame_count |-> 0,
     peak_level |-> 0,
     rms_level |-> 0,
     volume_gain |-> 1000,
     spectrum_buffer |-> <<>>]

\* a reset that forgets to clear the beat-timestamp history
reset_keeping_beat_times(a) ==
    [a EXCEPT !.current_bpm = 0,
              !.last_beat_time = <<>>,
              !.bpm_history = <<>>,
              !.peak_level = 0,
              !.rms_level = 0,
              !.volume_gain = 1000,
              !.spectrum_buffer = <<>>]

\* AudioAnalyzer.reset
reset(a) ==
    [a EXCEPT !.beat_times = <<>>,
              !.current_bpm = 0,
              !.last_beat_time = <<>>,
              !.bpm_history = <<>>,
              !.peak_level = 0,
              !.rms_level = 0,
              !.volume_gain = 1000,
              !.spectrum_buffer = <<>>]

\* AudioAnalyzer._get_default_features
get_default_features ==
    [bass |-> 0, mid |-> 0, treble |-> 0, total_energy |-> 0,
     spectral_centroid |-> 0, spectral_flux |-> 0,
     band_energies |-> [i \in 1..Len(BandNames) |-> 0],
     spectrum |-> <<>>, rms |-> 0, peak |-> 0, volume_gain |-> 1000]

\* an energy detector that fires when the weighted energy reaches, not
\* exceeds, twice the recent mean, and has no absolute floor
detect_onset_at_threshold(a, total_energy, bass_energy, current_time) ==
    LET weighted_energy == FAdd(FMul(3, total_energy), FMul(7, bass_energy))
        too_soon == /\ a.last_beat_time # <<>>
                    /\ current_time - a.last_beat_time[1] < min_beat_interval
        recent10 == FSum(LastN(a.audio_buffer, 10))
        fires == /\ ~too_soon
                 /\ Len(a.audio_buffer) > 10
                 /\ ~IsNaN(weighted_energy) /\ ~IsNaN(recent10)
                 /\ 10 * weighted_energy >= 2 * recent10
    IN IF fires
       THEN [onset |-> TRUE,
             audio_buffer |-> a.audio_buffer,
             last_beat_time |-> <<current_time>>]
       ELSE [onset |-> FALSE,
             audio_buffer |-> DequeAppend(a.audio_buffer, weighted_energy, 2048),
             last_beat_time |-> a.last_beat_time]

\* an energy detector that drops the weighted energy of a chunk inside the
\* refractory interval instead of appending it
detect_onset_dropping_refractory(a, total_energy, bass_energy, current_time) ==
    LET weighted_energy == FAdd(FMul(3, total_energy), FMul(7, bass_energy))
        too_soon == /\ a.last_beat_time # <<>>
                    /\ current_time - a.last_beat_time[1] < min_beat_interval
        recent10 == FSum(LastN(a.audio_buffer, 10))
        min_threshold20 == IF FGt(FMul(3, recent10), 20 * 50)
                           THEN FMul(3, recent10) ELSE 20 * 50
        fires == /\ ~too_soon
                 /\ Len(a.audio_buffer) > 10
                 /\ FGt(FMul(10, weighted_energy), FMul(2, recent10))
                 /\ FGt(FMul(20, weighted_energy), min_threshold20)
    IN IF fires
       THEN [onset |-> TRUE,
             audio_buffer |-> a.audio_buffer,
             last_beat_time |-> <<current_time>>]
       ELSE [onset |-> FALSE,
             audio_buffer |-> IF too_soon THEN a.audio_buffer
                              ELSE DequeAppend(a.audio_buffer, weighted_energy, 2048),
             last_beat_time |-> a.last_beat_time]

\* AudioAnalyzer._detect_onset: total_energy is np.sum(samples ** 2) of the
\* first hop. Returns whether the energy detector fired and the two fields
\* it writes. weighted_energy is kept times 10 (3 * total + 7 * bass), and
\* the mean of the last 10 buffer entries as their sum, so the comparisons
\*    weighted_energy > recent_energy * 2.0
\*    weighted_energy > max(0.005, recent_energy * 1.5)
\* are made without division.
detect_onset(a, total_energy, bass_energy, current_time) ==
    LET weighted_energy == FAdd(FMul(3, total_energy), FMul(7, bass_energy))
        too_soon == /\ a.last_beat_time # <<>>
                    /\ current_time - a.last_beat_time[1] < min_beat_interval
        recent10 == FSum(LastN(a.audio_buffer, 10))
        \* 20 * max(0.005, recent_energy * 1.5); Python's max keeps its first
        \* argument when the second is NaN
        min_threshold20 == IF FGt(FMul(3, recent10), 20 * 50)
                           THEN FMul(3, recent10) ELSE 20 * 50
        fires == /\ ~too_soon
                 /\ Len(a.audio_buffer) > 10
                 /\ FGt(FMul(10, weighted_energy), FMul(2, recent10))
                 /\ FGt(FMul(20, weighted_energy), min_threshold20)
    IN IF fires
       THEN [onset |-> TRUE,
             audio_buffer |-> a.audio_buffer,
             last_beat_time |-> <<current_time>>]
       ELSE [onset |-> FALSE,
             audio_buffer |-> DequeAppend(a.audio_buffer, weighted_energy, 2048),
             last_beat_time |-> a.last_beat_time]

\* an autocorrelation that gives an estimate for a chunk of any length
autocorrelation_bpm_any_length(n, peak_idx) ==
    LET window_size == 256
        min_period_samples == (3 * sample_rate) \div (10 * window_size)
        max_period_samples == sample_rate \div window_size
        lag == Clip(peak_idx, min_period_samples, max_period_samples - 1)
    IN Clip((60 * 100 * sample_rate) \div (lag * window_size), min_bpm, max_bpm)

\* AudioAnalyzer._autocorrelation_bpm on a chunk of n samples whose envelope
\* autocorrelation peaks, within the searched lags, at lag peak_idx
autocorrelation_bpm(n, peak_idx) ==
    LET window_size == 256
        \* len(range(0, n - window_size, window_size // 2))
        envelope_len == IF n > window_size
                        THEN (n - window_size + (window_size \div 2) - 1)
                                 \div (window_size \div 2)
                        ELSE 0
        \* int(0.3 / sample_period), int(1.0 / sample_period)
        min_period_samples == (3 * sample_rate) \div (10 * window_size)
        max_period_samples == sample_rate \div window_size
        lag == Clip(peak_idx, min_period_samples, max_period_samples - 1)
    IN IF n < 512 THEN 0
       ELSE IF envelope_len < 32 THEN 0
       ELSE IF envelope_len < max_period_samples THEN 0
       ELSE IF max_period_samples <= min_period_samples THEN 0
       ELSE Clip((60 * 100 * sample_rate) \div (lag * window_size), min_bpm, max_bpm)

\* 60.0 / np.mean(filtered_intervals), clipped; the intervals are in ticks
interval_bpm(filtered_intervals) ==
    Clip((60 * 20 * 100 * Len(filtered_intervals)) \div Sum(filtered_intervals),
         min_bpm, max_bpm)

\* 0.7 * calculated_bpm + 0.3 * autocorr_bpm
blend_bpm(calculated_bpm, autocorr_bpm) ==
    (7 * calculated_bpm + 3 * autocorr_bpm) \div 10

\* the published BPM after calculated_bpm was pushed into bpm_history
smoothed_bpm(bpm_history, calculated_bpm) ==
    IF Len(bpm_history) >= 3
    THEN Sum(bpm_history) \div Len(bpm_history)
    ELSE calculated_bpm

\* a fallback that publishes 60.0 / median without clipping it
fallback_bpm_unclipped(intervals, current_bpm) ==
    LET median2 == Median2(intervals)
    IN IF 2 * 6 <= median2 /\ median2 <= 2 * 60
       THEN (2 * 60 * 20 * 100) \div median2
       ELSE current_bpm

\* the fallback when every interval is an outlier: 60.0 / np.median(intervals),
\* clipped, when the median lies in [0.3, 3.0] s; current_bpm otherwise
fallback_bpm(intervals, current_bpm) ==
    LET median2 == Median2(intervals)
    IN IF 2 * 6 <= median2 /\ median2 <= 2 * 60
       THEN Clip((2 * 60 * 20 * 100) \div median2, min_bpm, max_bpm)
       ELSE current_bpm

\* process_audio, the body of "if is_beat:": a is the analyzer, n and peak_idx
\* describe the chunk handed to _autocorrelation_bpm
update_tempo(a, n, peak_idx, current_time) ==
    LET beat_times == DequeAppend(a.beat_times, current_time, beat_history_size)
        intervals == [i \in 1..(Len(beat_times) - 1) |-> beat_times[i + 1] - beat_times[i]]
        \* 0.3 s <= interval <= 3.0 s
        filtered_intervals == SelectSeq(intervals, LAMBDA d : d >= 6 /\ d <= 60)
        a1 == [a EXCEPT !.beat_times = beat_times]
    IN IF Len(beat_times) < 2 THEN a1
       ELSE IF Len(filtered_intervals) > 0
       THEN LET count == a.autocorr_frame_count + 1
                due == count >= autocorr_interval
                autocorr_bpm == autocorrelation_bpm(n, peak_idx)
                calculated_bpm ==
                    IF due /\ autocorr_bpm > 0
                    THEN blend_bpm(interval_bpm(filtered_intervals), autocorr_bpm)
                    ELSE interval_bpm(filtered_intervals)
                bpm_history == DequeAppend(a.bpm_history, calculated_bpm, bpm_history_size)
            IN [a1 EXCEPT !.autocorr_frame_count = IF due THEN 0 ELSE count,
                          !.bpm_history = bpm_history,
                          !.current_bpm = smoothed_bpm(bpm_history, calculated_bpm)]
       ELSE [a1 EXCEPT !.current_bpm = fallback_bpm(intervals, a.current_bpm)]

\* is_beat = energy_onset or (flux_onset and bass_energy > 0.01)
combined_onset(energy_onset, flux_onset, bass_energy) ==
    energy_onset \/ (flux_onset /\ FGt(bass_energy, 10))

\* a tempo step that runs the tempo block on every chunk
tempo_step_every_chunk(a, is_beat, n, peak_idx, current_time) ==
    update_tempo(a, n, peak_idx, current_time)

\* a tempo block behind a noise gate: a beat counts only while the smoothed
\* RMS level is above 0.1
tempo_step_gated_by_level(a, is_beat, n, peak_idx, current_time) ==
    IF is_beat /\ FGt(a.rms_level, 100)
    THEN update_tempo(a, n, peak_idx, current_time)
    ELSE a

\* a tempo step that starts the refractory interval on every beat
tempo_step_arming_refractory(a, is_beat, n, peak_idx, current_time) ==
    IF is_beat
    THEN [update_tempo(a, n, peak_idx, current_time)
             EXCEPT !.last_beat_time = <<current_time>>]
    ELSE a

\* the tempo step of process_audio: only a beat touches the tempo state
tempo_step(a, is_beat, n, peak_idx, current_time) ==
    IF is_beat THEN update_tempo(a, n, peak_idx, current_time) ELSE a

\* the exponential moving average 0.9 * level + 0.1 * value
smooth_level(level, value) == FDiv(FAdd(FMul(9, level), value), 10)

\* an auto-gain that does not clamp the gain
next_gain_unclamped(volume_gain, rms_level) ==
    IF FGt(rms_level, 10)
    THEN LET target_gain == (target_rms * 1000) \div rms_level
         IN (95 * volume_gain + 5 * target_gain) \div 100
    ELSE volume_gain

\* auto-gain: the gain after rms_level was updated
next_gain(volume_gain, rms_level) ==
    IF FGt(rms_level, 10)
    THEN LET target_gain == (target_rms * 1000) \div rms_level
         IN Min(2000, Max(100, (95 * volume_gain + 5 * target_gain) \div 100))
    ELSE volume_gain

\* energy / total_energy if total_energy > 0 else 0
normalized(energy, total_energy) ==
    IF FGt(total_energy, 0) THEN (1000 * energy) \div total_energy ELSE 0

\* Python's max(values): keeps the first value unless a later one compares
\* greater
RECURSIVE PyMax(_, _)
PyMax(best, rest) ==
    IF rest = <<>> THEN best
    ELSE PyMax(IF IsNaN(best) \/ IsNaN(Head(rest)) THEN best
               ELSE Max(best, Head(rest)), Tail(rest))

\* a normalisation of each band by itself alone (what a running maximum per
\* band gives while the band is at its maximum)
normalize_bands_each_alone(raw_band_energies) ==
    [i \in 1..Len(raw_band_energies) |->
        IF IsNaN(raw_band_energies[i]) THEN NaN
        ELSE IF raw_band_energies[i] > 0 THEN 1000 ELSE 0]

\* band_energies of process_audio: the seven raw energies over their maximum
normalize_bands(raw_band_energies) ==
    LET max_band_energy == PyMax(Head(raw_band_energies), Tail(raw_band_energies))
    IN IF FGt(max_band_energy, 0)
       THEN [i \in 1..Len(raw_band_energies) |->
               IF IsNaN(raw_band_energies[i]) THEN NaN
               ELSE (1000 * raw_band_energies[i]) \div max_band_energy]
       ELSE [i \in 1..Len(raw_band_energies) |-> 0]

\* a validation that takes len(samples) before it looks for None
validate_input_len_first(c) ==
    IF c.kind = "none" \/ c.kind = "unsized" THEN "TypeError"
    ELSE IF c.kind = "empty" THEN "default"
    ELSE IF c.kind = "malformed" THEN "ValueError"
    ELSE "ok"

\* process_audio, the input validation: what the call does with its argument
\*   "default"  return (False, current_bpm, default features)
\*   "ok"       analyze the chunk
\*   else       the exception raised
validate_input(c) ==
    IF c.kind = "none" THEN "default"
    ELSE IF c.kind = "unsized" THEN "TypeError"
    ELSE IF c.kind = "empty" THEN "default"
    ELSE IF c.kind = "malformed" THEN "ValueError"
    ELSE "ok"

\* the detector's threshold on the flux: spectral_flux > mean(magnitude) * 0.5,
\* the mean given as the sum over the NBins bins
flux_onset(flux, magnitude_sum) ==
    FGt(FMul(2 * NBins, flux), magnitude_sum)

\* The part of process_audio's result that the chunk alone decides: the band
\* energies of its spectrum and the features computed from them.
chunk_analysis(c) ==
    LET magnitude == c.mag
        bass_energy == get_band_energy(magnitude, bass_range)
        mid_energy == get_band_energy(magnitude, mid_range)
        treble_energy == get_band_energy(magnitude, treble_range)
        total_energy == FAdd(FAdd(bass_energy, mid_energy), treble_energy)
        raw_band_energies ==
            <<get_band_energy(magnitude, sub_bass_range),
              bass_energy,
              get_band_energy(magnitude, low_mid_range),
              mid_energy,
              get_band_energy(magnitude, high_mid_range),
              treble_energy,
              get_band_energy(magnitude, high_treble_range)>>
    IN [bass_energy |-> bass_energy,
        raw_band_energies |-> raw_band_energies,
        magnitude_sum |-> FSum(magnitude),
        spectrum |-> spectrum_data(magnitude),
        bass |-> normalized(bass_energy, total_energy),
        mid |-> normalized(mid_energy, total_energy),
        treble |-> normalized(treble_energy, total_energy),
        total_energy |-> FDiv(FSum(magnitude), NBins),
        spectral_centroid |-> calculate_spectral_centroid(magnitude),
        band_energies |-> normalize_bands(raw_band_energies)]

\* chunk_analysis, tabulated
ChunkAnalysis == [c \in ValidChunks \cup SteadyChunks |-> chunk_analysis(c)]

\* Where the try block of process_audio (feature assembly) raises:
\*   "none"      nowhere
\*   "bands"     before the levels are updated
\*   "levels"    after the levels are updated, before the gain is
\*   "features"  after the gain and the spectrum history are updated
Faults == {"bands", "levels", "features"}

\* process_audio on a chunk that passed validation. t1 is the clock reading
\* of _detect_onset, t2 the reading taken when a beat is registered; fault
\* says where feature assembly raises.
analyze_faulting(a, c, t1, t2, fault) ==
    LET n == Max(c.n, hop_size)
        s == ChunkAnalysis[c]
        flux == spectral_flux(c.mag, a.prev_magnitude)
        d == detect_onset(a, c.energy, s.bass_energy, t1)
        flux_fired == flux_onset(flux, s.magnitude_sum)
        is_beat == combined_onset(d.onset, flux_fired, s.bass_energy)
        a2 == [a EXCEPT !.prev_magnitude = <<c.mag>>,
                        !.prev_samples = <<[c EXCEPT !.n = n]>>,
                        !.audio_buffer = d.audio_buffer,
                        !.last_beat_time = d.last_beat_time]
        a3 == tempo_step(a2, is_beat, n, c.peak_idx, t2)
        rms_level == smooth_level(a.rms_level, c.rms)
        peak_level == smooth_level(a.peak_level, c.peak)
        volume_gain == next_gain(a.volume_gain, rms_level)
        \* the statements of the try block that ran before it raised, if it did
        levels_ran == fault # "bands"
        gain_ran == fault \notin {"bands", "levels"}
        a4 == [a3 EXCEPT
                 !.rms_level = IF levels_ran THEN rms_level ELSE a.rms_level,
                 !.peak_level = IF levels_ran THEN peak_level ELSE a.peak_level,
                 !.volume_gain = IF gain_ran THEN volume_gain ELSE a.volume_gain,
                 !.spectrum_buffer = IF gain_ran
                                     THEN DequeAppend(a.spectrum_buffer, s.spectrum, 100)
                                     ELSE a.spectrum_buffer]
        features ==
            [bass |-> s.bass, mid |-> s.mid, treble |-> s.treble,
             total_energy |-> s.total_energy,
             spectral_centroid |-> s.spectral_centroid,
             spectral_flux |-> flux,
             band_energies |-> s.band_energies,
             spectrum |-> s.spectrum,
             rms |-> rms_level,
             peak |-> peak_level,
             volume_gain |-> volume_gain]
    IN [an |-> a4, raised |-> "none",
        is_beat |-> fault = "none" /\ is_beat,
        bpm |-> a4.current_bpm,
        features |-> IF fault = "none" THEN features ELSE get_default_features,
        energy_onset |-> d.onset,
        flux_beat |-> flux_fired /\ FGt(s.bass_energy, 10), fault |-> fault]

\* process_audio on a chunk that passed validation, feature assembly not
\* raising
analyze(a, c, t1, t2) == analyze_faulting(a, c, t1, t2, "none")

\* AudioAnalyzer.process_audio, feature assembly raising at fault
process_audio_faulting(a, c, t1, t2, fault) ==
    LET v == validate_input(c)
    IN IF v = "ok" THEN analyze_faulting(a, c, t1, t2, fault)
       ELSE [an |-> a, raised |-> IF v = "default" THEN "none" ELSE v,
             is_beat |-> FALSE, bpm |-> a.current_bpm,
             features |-> get_default_features,
             energy_onset |-> FALSE, flux_beat |-> FALSE, fault |-> "none"]

\* AudioAnalyzer.process_audio
\* process_audio reading a clock of its own instead of the readings of the call
process_audio_own_clock(a, c, t1, t2) ==
    process_audio_faulting(a, c, now, now, "none")

process_audio(a, c, t1, t2) == process_audio_faulting(a, c, t1, t2, "none")

----------------------------------------------------------------------------
(* The state machine *)

\* The analyzer after k chunks of silence were processed since construction
\* (the earlier state is evaluated before the call on it is)
RECURSIVE AfterSilence(_)
AfterSilence(k) ==
    IF k = 0 THEN NewAnalyzer
    ELSE LET a == AfterSilence(k - 1)
         IN IF a.current_bpm = 0
            THEN process_audio(a, Silence, 0, 0).an
            ELSE a

\* the number of silent chunks after which the energy detector is armed
\* (len(audio_buffer) > 10)
WarmUp == 10 + 1

\* what a process_audio call returned or raised: r is the result of
\* process_audio, t the clock reading of the call
Outcome(c, r, t, twin_out) ==
    [op |-> "process", chunk |-> c, t |-> t, raised |-> r.raised,
     is_beat |-> r.is_beat, bpm |-> r.bpm, features |-> r.features,
     energy_onset |-> r.energy_onset, flux_beat |-> r.flux_beat,
     fault |-> r.fault, twin_out |-> twin_out]

NoOutcome(op) ==
    [op |-> op, chunk |-> NoSamples("none"), t |-> 0, raised |-> "none",
     is_beat |-> FALSE, bpm |-> 0, features |-> get_default_features,
     energy_onset |-> FALSE, flux_beat |-> FALSE, fault |-> "none",
     twin_out |-> <<>>]

\* the return value (is_beat, bpm, features) of a call
Returned(r) == [is_beat |-> r.is_beat, bpm |-> r.bpm, features |-> r.features]

\* What the properties remember of the behaviour so far:
\*   last_beat_at      clock reading of the last call that returned a beat
\*   prev_beat_at      last_beat_at as it was before the last call
\*   reset_seen        reset() was called
\*   bpm_before_reset  the BPM published when reset() was last called
\*   beats_since       beats returned since the last reset (counted up to 2)
\*   band_max          per band, a running maximum of the raw band energy
\*                     (see RunningMax)
\*   recording         whether inputs is kept
\*   inputs            the chunks and clock readings given to process_audio
\*                     since the analyzer was constructed
NoObs ==
    [last_beat_at |-> <<>>, prev_beat_at |-> <<>>, reset_seen |-> FALSE,
     bpm_before_reset |-> 0, beats_since |-> 0,
     band_max |-> <<0, 0, 0, 0, 0, 0, 0>>,
     recording |-> FALSE, inputs |-> <<>>]

\* A running maximum: raised to the current energy when exceeded, otherwise
\* multiplied by 0.9995
RunningMax(band_max, energy) ==
    IF FGt(energy, band_max) THEN energy ELSE (9995 * band_max) \div 10000

\* the running maxima after a chunk c was analyzed
BandMaxAfter(band_max, c) ==
    [i \in 1..Len(band_max) |->
        RunningMax(band_max[i], ChunkAnalysis[c].raw_band_energies[i])]

\* AudioCapture.__init__, and a reader that is not in read_chunk:
\*   stream       whether start_stream opened the stream
\*   audio_queue  the chunks put by the callback, oldest first; a chunk is
\*                named by the number of the callback that put it
\*   callbacks    audio callbacks so far
\*   reading      whether the reader is inside audio_queue.get(timeout=1.0)
\*   waited       ticks it has waited there
\*   returned     <<>>, or <<c>>: the chunk the last read_chunk returned
\*   raised       whether the last read_chunk raised RuntimeError
NewCapture ==
    [stream |-> FALSE, audio_queue |-> <<>>, callbacks |-> 0,
     reading |-> FALSE, waited |-> 0, returned |-> <<>>, raised |-> FALSE]

\* np.zeros(frames_per_buffer), which no callback puts: callbacks are numbered
\* from 1
zeros_chunk == 0

\* main() as it enters "while running": at the top of an iteration, nothing
\* read yet
\*   pc       "events", "read", "analyze", "render": the statement the loop is
\*            at; "exited": the loop was left
\*   quit     handle_events returned False
\*   frames   iterations completed or abandoned
\*   failed   "none", or the call that raised in the current iteration
\*   had_error  a call raised in this or an earlier iteration
\*   recovered  an iteration that analyzed its chunk followed one with an error
\*   shown    the (is_beat, bpm) handed to visualizer.update
NewLoop ==
    [pc |-> "events", quit |-> FALSE, frames |-> 0, failed |-> "none",
     had_error |-> FALSE, recovered |-> FALSE,
     shown |-> [is_beat |-> FALSE, bpm |-> 0]]

\* The arguments of AudioAnalyzer(sample_rate, hop_size, buffer_size, config)
\* and the fields of config that the constructor reads
\* AudioConfig.hop_size and AudioConfig.buffer_size
config_hop_size == 256
config_buffer_size == 1024

DefaultArgs ==
    [sample_rate |-> sample_rate, hop_size |-> hop_size, buffer_size |-> 1024,
     fft_size |-> fft_size,
     beat_history_size |-> beat_history_size, bpm_history_size |-> bpm_history_size,
     bpm_range |-> <<min_bpm, max_bpm>>, bass |-> bass_range]

\* arguments and configurations, valid and not
ConstructorArgs ==
    [sample_rate : {0 - 1, 0, sample_rate},
     hop_size : {0, hop_size},
     buffer_size : {0 - 1, 1024},
     fft_size : {0, fft_size},
     beat_history_size : {0 - 1, 0, beat_history_size},
     bpm_history_size : {0 - 1, 0, bpm_history_size},
     bpm_range : {<<min_bpm, max_bpm>>, <<max_bpm, min_bpm>>, <<min_bpm, min_bpm>>},
     bass : {bass_range, <<250, 60>>}]

\* AudioAnalyzer.__init__: "x or default" replaces a zero argument by the
\* value of AudioConfig, deque(maxlen=...) raises ValueError on a negative
\* size, and every other value is stored as it is
construct(args) ==
    IF args.beat_history_size < 0 \/ args.bpm_history_size < 0
    THEN [raised |-> "ValueError", settings |-> <<>>]
    ELSE [raised |-> "none",
          settings |-> <<[args EXCEPT
              !.sample_rate = IF @ # 0 THEN @ ELSE sample_rate,
              !.hop_size = IF @ # 0 THEN @ ELSE config_hop_size,
              !.buffer_size = IF @ # 0 THEN @ ELSE config_buffer_size]>>]

Init ==
    /\ an \in {NewAnalyzer, AfterSilence(WarmUp)}
    /\ now = 0
    /\ calls = 0
    /\ ret = NoOutcome("init")
    /\ obs = NoObs
    /\ twin = <<>>
    /\ capture = NewCapture
    /\ built = construct(DefaultArgs)
    /\ loop = NewLoop

\* process_audio(c) on a non-empty array, dt ticks after the previous call.
\* The clock readings of one call fall into the same tick.
Process(c, dt, limit) ==
    /\ calls < limit
    /\ LET t == now + dt
           r == process_audio(an, c, t, t)
           tw == IF twin = <<>> THEN <<>> ELSE <<process_audio(twin[1], c, t, t)>>
       IN /\ an' = r.an
          /\ now' = t
          /\ twin' = IF tw = <<>> THEN <<>> ELSE <<tw[1].an>>
          /\ ret' = Outcome(c, r, t, IF tw = <<>> THEN <<>> ELSE <<Returned(tw[1])>>)
          /\ obs' = [obs EXCEPT !.prev_beat_at = obs.last_beat_at,
                                !.last_beat_at = IF r.is_beat THEN <<t>> ELSE @,
                                !.beats_since = IF r.is_beat THEN Min(@ + 1, 2) ELSE @,
                                !.band_max = BandMaxAfter(@, c),
                                !.inputs = IF obs.recording
                                           THEN Append(@, [chunk |-> c, t |-> t])
                                           ELSE @]
    /\ calls' = calls + 1
    /\ UNCHANGED <<capture, built, loop>>

\* process_audio(c) on a non-empty array, feature assembly raising at fault
ProcessFaulting(c, dt, fault, limit) ==
    /\ calls < limit
    /\ LET t == now + dt
           r == process_audio_faulting(an, c, t, t, fault)
       IN /\ an' = r.an
          /\ now' = t
          /\ ret' = Outcome(c, r, t, <<>>)
          /\ obs' = [obs EXCEPT !.prev_beat_at = obs.last_beat_at,
                                !.last_beat_at = IF r.is_beat THEN <<t>> ELSE @,
                                !.beats_since = IF r.is_beat THEN Min(@ + 1, 2) ELSE @,
                                !.band_max = BandMaxAfter(@, c),
                                !.inputs = IF obs.recording
                                           THEN Append(@, [chunk |-> c, t |-> t])
                                           ELSE @]
    /\ calls' = calls + 1
    /\ UNCHANGED <<twin, capture, built, loop>>

\* process_audio(c) on an argument that is not a non-empty array
ProcessInvalid(c) ==
    /\ LET r == process_audio(an, c, now, now)
       IN /\ an' = r.an
          /\ ret' = Outcome(c, r, now, <<>>)
    /\ UNCHANGED <<now, calls, obs, twin, capture, built, loop>>

\* reset()
Reset ==
    /\ an' = reset(an)
    /\ twin' = <<NewAnalyzer>>
    /\ ret' = NoOutcome("reset")
    /\ obs' = [NoObs EXCEPT !.reset_seen = TRUE, !.bpm_before_reset = an.current_bpm]
    /\ UNCHANGED <<now, calls, capture, built, loop>>

\* every operation on every kind of argument, hits at short spacings
Next ==
    \/ \E c \in ValidChunks, dt \in ShortDeltas : Process(c, dt, MaxCalls)
    \/ \E c \in InvalidChunks : ProcessInvalid(c)
    \/ Reset

Spec == Init /\ [][Next]_vars

\* longer runs of silence and hits at every spacing, and reset
NextTempo ==
    \/ \E c \in TempoChunks, dt \in Deltas : Process(c, dt, MaxTempoCalls)
    \/ Reset

SpecTempo == Init /\ [][NextTempo]_vars

\* silence and hits, feature assembly raising on some of the calls
NextFault ==
    \/ \E c \in TempoChunks, dt \in ShortDeltas : Process(c, dt, MaxCalls)
    \/ \E c \in TempoChunks, f \in Faults : ProcessFaulting(c, 10, f, MaxCalls)

SpecFault == Init /\ [][NextFault]_vars

\* a hit every 0.5 s
NextSteady ==
    \E c \in SteadyChunks : Process(c, SteadyDelta, MaxSteadyCalls)

SpecSteady == Init /\ [][NextSteady]_vars

\* AudioAnalyzer(...): a new analyzer replaces the old one unless the
\* constructor raises
Construct(args) ==
    /\ built' = construct(args)
    /\ an' = IF built'.raised = "none" THEN NewAnalyzer ELSE an
    /\ ret' = NoOutcome("construct")
    /\ UNCHANGED <<now, calls, obs, twin, capture, loop>>

NextConstruct == \E args \in ConstructorArgs : Construct(args)

SpecConstruct == Init /\ [][NextConstruct]_vars

\* valid constructions that differ in the rates and sizes of the analysis
GridArgs ==
    {[DefaultArgs EXCEPT !.sample_rate = sr, !.fft_size = n,
                         !.hop_size = h, !.buffer_size = b] :
        sr \in {8000, 11025, 16000, 22050, 32000, 44100, 48000},
        n \in {512, 1024, 2048, 4096},
        h \in {0, 256, 512},
        b \in {0, 1024, 2048}}

\* main(): AudioAnalyzer(sample_rate=config.audio.sample_rate, config=config);
\* hop_size and buffer_size are not passed and take the defaults of the
\* parameters
MainArgs == DefaultArgs

ConstructAsMain ==
    /\ built' = construct(MainArgs)
    /\ an' = NewAnalyzer
    /\ ret' = NoOutcome("main")
    /\ UNCHANGED <<now, calls, obs, twin, capture, loop>>

NextGrid ==
    \/ \E args \in GridArgs : Construct(args)
    \/ ConstructAsMain

SpecGrid == Init /\ [][NextGrid]_vars

\* the calls that AfterSilence(k) makes
SilenceInputs(k) == [i \in 1..k |-> [chunk |-> Silence, t |-> 0]]

\* an analyzer whose inputs since construction are recorded
InitReplay ==
    /\ now = 0
    /\ calls = 0
    /\ \E k \in {0, WarmUp} :
          /\ an = AfterSilence(k)
          /\ obs = [NoObs EXCEPT !.recording = TRUE, !.inputs = SilenceInputs(k)]
    /\ ret = NoOutcome("init")
    /\ twin = <<>>
    /\ capture = NewCapture
    /\ built = construct(DefaultArgs)
    /\ loop = NewLoop

NextReplay ==
    \E c \in TempoChunks, dt \in Deltas : Process(c, dt, MaxCalls)

SpecReplay == InitReplay /\ [][NextReplay]_vars

\* a freshly constructed analyzer after the calls of inputs (the test on b
\* has b computed before the rest is replayed)
RECURSIVE Replay(_, _)
Replay(a, inputs) ==
    IF inputs = <<>> THEN a
    ELSE LET i == Head(inputs)
             b == process_audio(a, i.chunk, i.t, i.t).an
         IN IF b.current_bpm = 0
            THEN Replay(b, Tail(inputs))
            ELSE Replay(b, Tail(inputs))

\* what the last call of inputs returns on a second, freshly constructed
\* analyzer that was given the same calls
Replayed(inputs) ==
    LET i == inputs[Len(inputs)]
        a == Replay(NewAnalyzer, SubSeq(inputs, 1, Len(inputs) - 1))
    IN Returned(process_audio(a, i.chunk, i.t, i.t))

\* The analyzer after k >= 1 chunks of silence: every call has appended a
\* weighted energy of 0 and the spectrum of silence, and left the rest as
\* constructed
AfterLongSilence(k) ==
    [NewAnalyzer EXCEPT
        !.prev_magnitude = <<Silence.mag>>,
        !.prev_samples = <<Silence>>,
        !.audio_buffer = [i \in 1..Min(k, audio_buffer_size) |-> 0],
        !.spectrum_buffer = [i \in 1..Min(k, spectrum_buffer_size)
                                |-> ChunkAnalysis[Silence].spectrum]]

\* m hits, 0.5 s from one to the next
HitInputs(m) == [i \in 1..m |-> [chunk |-> KickA, t |-> SteadyDelta * i]]

\* an analyzer that has run for long: 2048 chunks of silence, then hits that
\* leave one free place in the beat history
InitFull ==
    /\ an = Replay(AfterLongSilence(audio_buffer_size), HitInputs(beat_history_size - 1))
    /\ now = SteadyDelta * (beat_history_size - 1)
    /\ calls = 0
    /\ ret = NoOutcome("init")
    /\ obs = NoObs
    /\ twin = <<>>
    /\ capture = NewCapture
    /\ built = construct(DefaultArgs)
    /\ loop = NewLoop

NextFull ==
    \E c \in TempoChunks, dt \in ShortDeltas : Process(c, dt, MaxCalls)

SpecFull == InitFull /\ [][NextFull]_vars

\* the level state of an analyzer that has heard loud audio
LoudLevels(a) ==
    [a EXCEPT !.rms_level = 500, !.peak_level = 900, !.volume_gain = 600]

\* two analyzers that differ only in their level state
InitLevels ==
    /\ an \in {NewAnalyzer, AfterSilence(WarmUp)}
    /\ twin = <<LoudLevels(an)>>
    /\ now = 0
    /\ calls = 0
    /\ ret = NoOutcome("init")
    /\ obs = NoObs
    /\ capture = NewCapture
    /\ built = construct(DefaultArgs)
    /\ loop = NewLoop

NextLevels ==
    \E c \in TempoChunks \cup {Hum}, dt \in ShortDeltas : Process(c, dt, MaxCalls)

SpecLevels == InitLevels /\ [][NextLevels]_vars

----------------------------------------------------------------------------
(* The main loop *)

main_frame == <<calls, obs, twin, capture, built>>

\* running = visualizer.handle_events(); if not running: break
HandleEvents(quit) ==
    /\ loop.pc = "events"
    /\ loop.frames < MaxFrames \/ quit
    /\ loop' = [loop EXCEPT !.pc = IF quit THEN "exited" ELSE "read",
                            !.quit = quit, !.failed = "none"]
    /\ UNCHANGED <<an, now, ret>>
    /\ UNCHANGED main_frame

\* a main loop that gives up when read_chunk raises RuntimeError
MainReadFatal(raises) ==
    /\ loop.pc = "read"
    /\ loop' = IF raises
               THEN [loop EXCEPT !.pc = "exited", !.failed = "read_chunk",
                                 !.had_error = TRUE, !.frames = @ + 1]
               ELSE [loop EXCEPT !.pc = "analyze"]
    /\ UNCHANGED <<an, now, ret>>
    /\ UNCHANGED main_frame

\* samples = audio_capture.read_chunk(); on RuntimeError: sleep, continue
MainRead(raises) ==
    /\ loop.pc = "read"
    /\ loop' = IF raises
               THEN [loop EXCEPT !.pc = "events", !.failed = "read_chunk",
                                 !.had_error = TRUE, !.frames = @ + 1]
               ELSE [loop EXCEPT !.pc = "analyze"]
    /\ UNCHANGED <<an, now, ret>>
    /\ UNCHANGED main_frame

\* is_beat, bpm, features = audio_analyzer.process_audio(samples); on an
\* exception: is_beat = False, bpm = 0.0, features = {}
MainAnalyze(c, dt) ==
    /\ loop.pc = "analyze"
    /\ LET t == now + dt
           r == process_audio(an, c, t, t)
           ok == r.raised = "none"
       IN /\ an' = r.an
          /\ now' = t
          /\ ret' = Outcome(c, r, t, <<>>)
          /\ loop' = [loop EXCEPT
                         !.pc = "render",
                         !.failed = IF ok THEN "none" ELSE "process_audio",
                         !.recovered = @ \/ (ok /\ loop.had_error),
                         !.had_error = @ \/ ~ok,
                         !.shown = IF ok THEN [is_beat |-> r.is_beat, bpm |-> r.bpm]
                                   ELSE [is_beat |-> FALSE, bpm |-> 0]]
    /\ UNCHANGED main_frame

\* visualizer.update and visualizer.render, their exceptions caught
MainRender ==
    /\ loop.pc = "render"
    /\ loop' = [loop EXCEPT !.pc = "events", !.frames = @ + 1]
    /\ UNCHANGED <<an, now, ret>>
    /\ UNCHANGED main_frame

\* the arguments on which process_audio raises
RaisingChunks == {NoSamples("unsized"), NoSamples("malformed")}

NextMain ==
    \/ \E quit \in BOOLEAN : HandleEvents(quit)
    \/ \E raises \in BOOLEAN : MainRead(raises)
    \/ \E c \in TempoChunks \cup RaisingChunks, dt \in ShortDeltas : MainAnalyze(c, dt)
    \/ MainRender

SpecMain == Init /\ [][NextMain]_vars

----------------------------------------------------------------------------
(* Audio capture: the callback of the audio stream (producer) and read_chunk
   (consumer) *)

analyzer_vars == <<an, now, calls, ret, obs, twin, built, loop>>

\* start_stream, the device found and the stream opened
StartStream ==
    /\ ~capture.stream
    /\ capture' = [capture EXCEPT !.stream = TRUE]
    /\ UNCHANGED analyzer_vars

\* _audio_callback on a block of frames; an empty block is dropped
AudioCallback(empty) ==
    /\ capture.stream
    /\ capture.callbacks < MaxCallbacks
    /\ capture' = [capture EXCEPT
                      !.callbacks = @ + 1,
                      !.audio_queue = IF empty THEN @ ELSE Append(@, capture.callbacks + 1)]
    /\ UNCHANGED analyzer_vars

\* read_chunk is called: it raises when the stream was not started, and
\* enters audio_queue.get(timeout=1.0) otherwise
ReadBegin ==
    /\ ~capture.reading
    /\ capture' = IF capture.stream
                  THEN [capture EXCEPT !.reading = TRUE, !.waited = 0,
                                       !.returned = <<>>, !.raised = FALSE]
                  ELSE [capture EXCEPT !.returned = <<>>, !.raised = TRUE]
    /\ UNCHANGED analyzer_vars

\* get() takes the oldest chunk, and read_chunk returns it
ReadGet ==
    /\ capture.reading
    /\ capture.audio_queue # <<>>
    /\ capture' = [capture EXCEPT !.reading = FALSE,
                                  !.audio_queue = Tail(@),
                                  !.returned = <<Head(capture.audio_queue)>>]
    /\ UNCHANGED analyzer_vars

\* a tick passes in get() while the queue is empty
ReadWait ==
    /\ capture.reading
    /\ capture.audio_queue = <<>>
    /\ capture.waited < read_timeout
    /\ capture' = [capture EXCEPT !.waited = @ + 1]
    /\ UNCHANGED analyzer_vars

\* get() without a timeout: it keeps waiting on the empty queue
ReadTimeoutBlocks ==
    /\ capture.reading
    /\ capture.audio_queue = <<>>
    /\ capture.waited = read_timeout
    /\ UNCHANGED vars

\* get() raises queue.Empty after the timeout, and read_chunk returns
\* np.zeros(frames_per_buffer)
ReadTimeout ==
    /\ capture.reading
    /\ capture.audio_queue = <<>>
    /\ capture.waited = read_timeout
    /\ capture' = [capture EXCEPT !.reading = FALSE, !.returned = <<zeros_chunk>>]
    /\ UNCHANGED analyzer_vars

NextCapture ==
    \/ StartStream
    \/ \E empty \in BOOLEAN : AudioCallback(empty)
    \/ ReadBegin
    \/ ReadGet
    \/ ReadWait
    \/ ReadTimeout

SpecCapture == Init /\ [][NextCapture]_vars

\* the reader's thread runs and its timer advances, whatever the producer does
SpecCaptureLive ==
    /\ SpecCapture
    /\ WF_vars(ReadGet)
    /\ WF_vars(ReadWait)
    /\ WF_vars(ReadTimeout)

----------------------------------------------------------------------------
(* Properties *)

\* the last operation was a process_audio call that analyzed a chunk
Analyzed == ret.op = "process" /\ ret.chunk.kind = "samples"

\* C1: no two calls that return is_beat = true have clock readings less than
\* min_beat_interval apart, whichever detector reported the beats. Here: a
\* call that returns a beat comes at least min_beat_interval after the last
\* earlier call that returned one.
C1_MinBeatInterval ==
    (Analyzed /\ ret.is_beat /\ obs.prev_beat_at # <<>>)
        => ret.t - obs.prev_beat_at[1] >= min_beat_interval

BpmPublishable(b) == b = 0 \/ (min_bpm <= b /\ b <= max_bpm)

\* C2: after any sequence of process and reset calls the published BPM
\* (current_bpm and the bpm a call returns) is 0 or lies in [min_bpm, max_bpm].
C2_BpmInRange ==
    /\ BpmPublishable(an.current_bpm)
    /\ ret.op = "process" => BpmPublishable(ret.bpm)

\* a beat all of whose intervals are outliers, after a reset: the median
\* fallback published a tempo (no entry in bpm_history) and had to clip it
C2_Witness ==
    /\ Analyzed /\ ret.is_beat
    /\ obs.reset_seen
    /\ Len(an.beat_times) >= 3
    /\ an.bpm_history = <<>>
    /\ an.current_bpm = min_bpm
    /\ ret.bpm = min_bpm

\* C3: a process call in which no beat is detected leaves the published BPM,
\* the BPM history and the beat-timestamp history as they were before the
\* call.
C3_NoBeatKeepsTempo ==
    [][(ret'.op = "process" /\ ret'.chunk.kind = "samples"
            /\ ~ret'.energy_onset /\ ~ret'.flux_beat)
        => /\ an'.current_bpm = an.current_bpm
           /\ an'.bpm_history = an.bpm_history
           /\ an'.beat_times = an.beat_times]_vars

\* a loud chunk in which neither detector found a beat, processed while a
\* tempo was published
C3_Witness ==
    /\ Analyzed /\ ret.chunk # Silence
    /\ ~ret.energy_onset /\ ~ret.flux_beat /\ ~ret.is_beat
    /\ an.current_bpm > 0
    /\ Len(an.bpm_history) >= 1
    /\ Len(an.beat_times) >= 2

\* C4: after reset() the analyzer returns, for every chunk sequence and
\* clock readings, the same (is_beat, bpm, features) as a freshly constructed
\* analyzer.
C4_ResetEqualsFresh ==
    (Analyzed /\ ret.twin_out # <<>>) => ret.twin_out[1] = Returned(ret)

\* C5: immediately after reset() the published BPM is 0, the beat-timestamp
\* history is empty, the RMS and peak levels are 0 and the gain is 1.0; and
\* the published BPM stays 0 until two further beats were recorded.
C5_AfterReset ==
    /\ ret.op = "reset" =>
          /\ an.current_bpm = 0
          /\ an.beat_times = <<>>
          /\ an.rms_level = 0
          /\ an.peak_level = 0
          /\ an.volume_gain = 1000
    /\ (obs.reset_seen /\ obs.beats_since < 2) =>
          /\ an.current_bpm = 0
          /\ ret.bpm = 0

\* the first beat after a reset that cleared a published tempo
C5_Witness ==
    /\ obs.reset_seen
    /\ obs.bpm_before_reset > 0
    /\ obs.beats_since = 1
    /\ Analyzed /\ ret.is_beat
    /\ Len(an.beat_times) = 1
    /\ an.current_bpm = 0

\* C6: in every reachable state, processing a non-empty chunk of zeros
\* returns is_beat = false, bass = mid = treble = 0 and the BPM published
\* before the call.
C6_SilenceNeverBeats ==
    [][(ret'.op = "process" /\ ret'.chunk = Silence)
        => /\ ~ret'.is_beat
           /\ ret'.features.bass = 0
           /\ ret'.features.mid = 0
           /\ ret'.features.treble = 0
           /\ ret'.bpm = an.current_bpm]_vars

\* silence processed by an analyzer whose energy detector is armed and which
\* publishes a tempo
C6_Witness ==
    /\ Analyzed /\ ret.chunk = Silence
    /\ Len(an.audio_buffer) > 10
    /\ ~ret.is_beat
    /\ ret.bpm > 0

\* C7: for every valid chunk the returned bass + mid + treble lies in
\* [0, 1.0001] and is 0 exactly when the total spectral energy of the chunk
\* is 0.
C7_BandRatioSum ==
    Analyzed =>
        LET ratio_sum == ret.features.bass + ret.features.mid + ret.features.treble
        IN /\ 0 <= ratio_sum /\ ratio_sum <= 1000
           /\ (ratio_sum = 0) <=> (FSum(ret.chunk.mag) = 0)

\* C8: the spectral_flux feature is >= 0 on every processed chunk, and 0 on
\* the first chunk of an analyzer without a prior spectrum.
C8_FluxNonNegative ==
    Analyzed =>
        /\ ret.features.spectral_flux >= 0
        /\ (~obs.reset_seen /\ Len(an.spectrum_buffer) = 1)
              => ret.features.spectral_flux = 0

\* C9: process_audio on None or on an empty chunk returns (false, the
\* published BPM, the default bundle) without raising, and leaves the
\* analyzer's state unchanged.
C9_EmptyInputIsNoOp ==
    [][(ret'.op = "process" /\ ret'.chunk.kind \in {"none", "empty"})
        => /\ ret'.raised = "none"
           /\ ~ret'.is_beat
           /\ ret'.bpm = an.current_bpm
           /\ ret'.features = get_default_features
           /\ an' = an]_vars

\* an empty chunk handed to an analyzer that publishes a tempo and holds
\* histories
C9_Witness ==
    /\ ret.op = "process" /\ ret.chunk.kind = "empty"
    /\ ret.raised = "none"
    /\ ret.bpm > 0
    /\ an.beat_times # <<>>
    /\ an.prev_magnitude # <<>>

\* C10: process_audio on a chunk that cannot be converted to a float sample
\* array raises ValueError.
C10_MalformedRaisesValueError ==
    (ret.op = "process" /\ ret.chunk.kind \in {"malformed", "unsized"})
        => ret.raised = "ValueError"

\* C11: when feature assembly raises, the call returns is_beat = false, the
\* default bundle and the BPM that was published before the call.
C11_FaultKeepsBpm ==
    [][(ret'.op = "process" /\ ret'.fault # "none")
        => /\ ret'.raised = "none"
           /\ ~ret'.is_beat
           /\ ret'.features = get_default_features
           /\ ret'.bpm = an.current_bpm]_vars

GainInRange(g) == 100 <= g /\ g <= 2000

\* C12: after any sequence of process and reset calls the gain, in the
\* analyzer and in every returned bundle, lies in [0.1, 2.0].
C12_GainClamped ==
    /\ GainInRange(an.volume_gain)
    /\ ret.op = "process" => GainInRange(ret.features.volume_gain)

\* a quiet chunk drove the gain up to the clamp
C12_Witness ==
    /\ Analyzed
    /\ an.rms_level > 10
    /\ an.volume_gain = 2000
    /\ ret.features.volume_gain = 2000

\* the chunk just analyzed had finite samples and its bundle was assembled
AnalyzedFinite == Analyzed /\ ~IsNaN(ret.chunk.energy) /\ ret.fault = "none"

\* the raw energies of the seven bands of the chunk just analyzed
RawBands == ChunkAnalysis[ret.chunk].raw_band_energies

LargestBand == CHOOSE m \in {RawBands[i] : i \in 1..7} : \A i \in 1..7 : RawBands[i] <= m

C14_QueueBounded ==
    Len(capture.audio_queue) < MaxCallbacks

\* what read_chunk returns is the oldest queued chunk, or zeros after a full
\* timeout with nothing queued
ReadResult ==
    (capture.reading /\ ~capture'.reading)
        => \/ /\ capture.audio_queue # <<>>
              /\ capture'.returned = <<Head(capture.audio_queue)>>
              /\ capture'.audio_queue = Tail(capture.audio_queue)
           \/ /\ capture.audio_queue = <<>>
              /\ capture.waited = read_timeout
              /\ capture'.returned = <<zeros_chunk>>

\* C15: on a started stream every read_chunk call eventually returns, with the
\* oldest queued chunk if one is there within the timeout and with a chunk of
\* zeros otherwise; it never waits forever, even if no chunk is ever queued.
C15_ReadChunkReturns ==
    /\ capture.reading ~> (~capture.reading /\ capture.returned # <<>>)
    /\ [][ReadResult]_vars

\* a read that timed out on a stream whose callback queued nothing
C15_Witness ==
    /\ capture.stream
    /\ ~capture.reading
    /\ capture.returned = <<zeros_chunk>>
    /\ capture.callbacks = 0

SteadyBeats ==
    /\ ~obs.reset_seen
    /\ Len(an.beat_times) >= 10
    /\ \A i \in 1..(Len(an.beat_times) - 1) :
          an.beat_times[i + 1] - an.beat_times[i] = SteadyDelta

\* C17: with at least 10 consecutive beats exactly 0.5 s apart on a fresh
\* analyzer, and a BPM history of 3 entries or more, the published BPM is
\* within 3 of 120, also at calls that blend the autocorrelation estimate in.
C17_SteadyTempo ==
    (Analyzed /\ SteadyBeats /\ Len(an.bpm_history) >= 3)
        => (ret.bpm >= 12000 - 300 /\ ret.bpm <= 12000 + 300)

\* the values the claim calls valid
ValidSettings(c) ==
    /\ c.sample_rate > 0 /\ c.hop_size > 0 /\ c.buffer_size > 0 /\ c.fft_size > 0
    /\ c.beat_history_size > 0 /\ c.bpm_history_size > 0
    /\ c.bpm_range[1] < c.bpm_range[2]
    /\ c.bass[1] < c.bass[2]

\* C18: an analyzer is only ever constructed with a valid configuration:
\* positive sample rate and sizes, min_bpm < max_bpm, band lower < upper.
C18_InvalidConfigRejected ==
    built.raised = "none" => ValidSettings(built.settings[1])

\* no element of a sequence of floats is NaN
AllFinite(xs) == \A i \in 1..Len(xs) : ~IsNaN(xs[i])

\* every numeric field of a feature bundle is finite
FiniteFeatures(f) ==
    /\ AllFinite(<<f.bass, f.mid, f.treble, f.total_energy, f.spectral_centroid,
                   f.spectral_flux, f.rms, f.peak, f.volume_gain>>)
    /\ AllFinite(f.band_energies)
    /\ AllFinite(f.spectrum)

\* C19: whatever the samples, every numeric field of the returned bundle and
\* the BPM are finite, and so are the level and gain the analyzer keeps.
C19_OutputsFinite ==
    Analyzed =>
        /\ FiniteFeatures(ret.features)
        /\ ~IsNaN(ret.bpm)
        /\ AllFinite(<<an.rms_level, an.peak_level, an.volume_gain>>)

\* total_energy * 0.3 + bass_energy * 0.7 of a chunk, times 10
WeightedEnergy(c) ==
    FAdd(FMul(3, c.energy), FMul(7, ChunkAnalysis[c].bass_energy))

\* the chunk comes after a fire of the energy detector and less than
\* min_beat_interval after the last one
Refractory(a, t) ==
    a.last_beat_time # <<>> /\ t - a.last_beat_time[1] < min_beat_interval

\* the weighted energy w exceeds 2.0 x mean and max(0.005, 1.5 x mean), the
\* mean taken over the last 10 entries of the energy history
ExceedsThresholds(w, audio_buffer) ==
    LET sum10 == FSum(LastN(audio_buffer, 10))
    IN /\ FGt(FMul(10, w), FMul(2, sum10))
       /\ FGt(FMul(20, w), 20 * 50)
       /\ FGt(FMul(20, w), FMul(3, sum10))

\* C20: the energy detector fires only if (a) it has not fired yet or at least
\* min_beat_interval has passed since it last fired, and (b) the weighted
\* energy exceeds 2.0 x the mean of the last 10 history entries and
\* max(0.005, 1.5 x that mean); a chunk inside the refractory interval never
\* fires, and its weighted energy is appended to the energy history.
C20_EnergyDetector ==
    [][(ret'.op = "process" /\ ret'.chunk.kind = "samples")
        => /\ ret'.energy_onset
                => /\ ~Refractory(an, ret'.t)
                   /\ ExceedsThresholds(WeightedEnergy(ret'.chunk), an.audio_buffer)
           /\ Refractory(an, ret'.t)
                => /\ ~ret'.energy_onset
                   /\ an'.audio_buffer =
                        DequeAppend(an.audio_buffer, WeightedEnergy(ret'.chunk), 2048)]_vars

\* a loud chunk 0.1 s after a fire of the armed energy detector: it did not
\* fire, and its weighted energy is the newest entry of the history
C20_Witness ==
    /\ Analyzed
    /\ Refractory(an, ret.t)
    /\ ret.t > an.last_beat_time[1]
    /\ ~ret.energy_onset
    /\ Len(an.audio_buffer) > 10 + 1
    /\ an.audio_buffer[Len(an.audio_buffer)] = WeightedEnergy(ret.chunk)
    /\ ExceedsThresholds(WeightedEnergy(ret.chunk), SubSeq(an.audio_buffer, 1, Len(an.audio_buffer) - 1))

\* C21: every tempo candidate accepted on a beat, from the mean of the
\* filtered intervals or from the median fallback, is pushed into the BPM
\* history, and the published BPM is the mean of the history when it holds 3
\* entries or more and the candidate itself otherwise. Here: a beat that
\* changes the published BPM has pushed an entry, and the BPM it publishes is
\* that mean or that entry.
C21_CandidatePushed ==
    [][(ret'.op = "process" /\ ret'.is_beat /\ ret'.bpm # an.current_bpm)
        => /\ Len(an'.bpm_history) > 0
           /\ an'.bpm_history # an.bpm_history
           /\ ret'.bpm = IF Len(an'.bpm_history) >= 3
                         THEN Sum(an'.bpm_history) \div Len(an'.bpm_history)
                         ELSE an'.bpm_history[Len(an'.bpm_history)]]_vars

\* C22: the throttle counter of the autocorrelation advances on every
\* processed chunk, and the autocorrelation is attempted (the counter returns
\* to 0) on every autocorr_interval-th chunk.
C22_ThrottleCountsChunks ==
    [][(ret'.op = "process" /\ ret'.chunk.kind = "samples")
        => an'.autocorr_frame_count
             = IF an.autocorr_frame_count + 1 >= autocorr_interval
               THEN 0 ELSE an.autocorr_frame_count + 1]_vars

\* the number of 256-sample windows, stepped by 128 samples, in n samples
EnvelopePoints(n) == IF n <= 256 THEN 0 ELSE ((n - 256 - 1) \div 128) + 1

\* the longest lag searched, int(1.0 / (256 / sample_rate))
LongestLag == sample_rate \div 256

\* a chunk of n samples is too short for an autocorrelation estimate
TooShort(n) == EnvelopePoints(n) < 32 \/ EnvelopePoints(n) < LongestLag

\* chunk lengths around the two limits, and the capture size
ChunkLengths == {256, 512, 1024, 4224, 4225, 22144, 22145, 22528}

\* the intervals of beat_times that lie in [0.3, 3.0] s
FilteredIntervals(beat_times) ==
    SelectSeq([i \in 1..(Len(beat_times) - 1) |-> beat_times[i + 1] - beat_times[i]],
              LAMBDA d : d >= 6 /\ d <= 60)

\* C23: the autocorrelation estimate is 0 for a chunk with fewer than 32
\* envelope points or an envelope shorter than the longest lag; so for a
\* chunk of 1024 samples the candidate pushed into the BPM history is the
\* interval-based one, also when the throttle lets the autocorrelation run.
C23_ShortChunkNoEstimate ==
    [][/\ \A n \in ChunkLengths, lag \in {0, 51, 86, 171} :
             TooShort(n) => autocorrelation_bpm(n, lag) = 0
       /\ TooShort(1024)
       /\ (/\ ret'.op = "process" /\ ret'.chunk.kind = "samples"
           /\ TooShort(Max(ret'.chunk.n, hop_size))
           /\ an'.bpm_history # an.bpm_history)
            => an'.bpm_history[Len(an'.bpm_history)]
                 = interval_bpm(FilteredIntervals(an'.beat_times))]_vars

\* a beat on a chunk of 1024 samples at a call for which the throttle let the
\* autocorrelation run
C23_Witness ==
    /\ Analyzed /\ ret.chunk.n = 1024 /\ ret.is_beat
    /\ Len(an.beat_times) >= 2
    /\ an.beat_times[Len(an.beat_times)] - an.beat_times[Len(an.beat_times) - 1] = 10
    /\ an.autocorr_frame_count = 0
    /\ Len(an.bpm_history) >= autocorr_interval

\* history h2 is h, or h after one entry was added at the end, the oldest
\* having left if h was full; and h2 is no longer than cap
HistoryStep(h, h2, cap) ==
    /\ Len(h2) <= cap
    /\ \/ h2 = h
       \/ /\ Len(h2) > 0
          /\ h2 = (IF Len(h) = cap THEN SubSeq(h, 2, cap) ELSE h) \o <<h2[Len(h2)]>>

\* C24: the beat-timestamp history holds at most beat_history_size entries,
\* the BPM history at most bpm_history_size, the energy history at most 2048
\* and the spectrum history at most 100; a full history that receives an
\* entry loses its oldest one and keeps the order of the others.
C24_HistoriesBounded ==
    [][/\ AfterLongSilence(WarmUp) = AfterSilence(WarmUp)
       /\ ret'.op = "process"
            => /\ HistoryStep(an.beat_times, an'.beat_times, beat_history_size)
               /\ HistoryStep(an.bpm_history, an'.bpm_history, bpm_history_size)
               /\ HistoryStep(an.audio_buffer, an'.audio_buffer, audio_buffer_size)
               /\ HistoryStep(an.spectrum_buffer, an'.spectrum_buffer,
                              spectrum_buffer_size)]_vars

\* all four histories are full, and the beat history and the energy history
\* have each lost their oldest entry to a new one
C24_Witness ==
    /\ Analyzed
    /\ Len(an.beat_times) = beat_history_size
    /\ an.beat_times[1] > SteadyDelta
    /\ Len(an.bpm_history) = bpm_history_size
    /\ Len(an.audio_buffer) = audio_buffer_size
    /\ an.audio_buffer[audio_buffer_size] > 0
    /\ Len(an.spectrum_buffer) = spectrum_buffer_size

\* C25: two analyzers that differ only in RMS level, peak level and gain and
\* are given the same chunks and clock readings return the same is_beat and
\* bpm at every call.
C25_LevelsDoNotSteerAnalysis ==
    (Analyzed /\ twin # <<>>)
        => /\ ret.twin_out # <<>>
           /\ ret.twin_out[1].is_beat = ret.is_beat
           /\ ret.twin_out[1].bpm = ret.bpm

\* a beat with a tempo, returned by two analyzers whose levels and gains
\* differ
C25_Witness ==
    /\ Analyzed /\ twin # <<>>
    /\ ret.is_beat /\ ret.bpm > 0
    /\ twin[1].rms_level # an.rms_level
    /\ twin[1].peak_level # an.peak_level
    /\ twin[1].volume_gain # an.volume_gain
    /\ ret.twin_out[1].features.volume_gain # ret.features.volume_gain

BandsOf(k, sr, n) ==
    {i \in 1..Len(BandNames) : InRangeAt(k, BandRange(BandNames[i]), sr, n)}

C27_BandsDisjoint ==
    built.raised = "none" =>
        LET cfg == built.settings[1]
        IN \A k \in 0..(cfg.fft_size \div 2) :
              Cardinality(BandsOf(k, cfg.sample_rate, cfg.fft_size)) <= 1

\* C28: the analyzer that main constructs, with a Config and without hop_size
\* and buffer_size, has the hop_size and the buffer_size of the Config.
C28_MainUsesConfigSizes ==
    ret.op = "main" =>
        /\ built.raised = "none"
        /\ built.settings[1].hop_size = config_hop_size
        /\ built.settings[1].buffer_size = config_buffer_size

\* C29: a process call appends its clock reading to the beat history exactly
\* when it returns is_beat = true, and a call that returns is_beat = false
\* leaves the beat history and the published BPM as they were.
C29_BeatHistoryFollowsIsBeat ==
    [][ret'.op = "process"
        => /\ ret'.is_beat
                => an'.beat_times = DequeAppend(an.beat_times, now', beat_history_size)
           /\ ~ret'.is_beat
                => /\ an'.beat_times = an.beat_times
                   /\ an'.current_bpm = an.current_bpm]_vars

\* C30: last_beat_time changes only in a call where the energy detector
\* fires, and then to the clock reading of that call; a beat that only the
\* flux detector reports (flux onset with bass energy above 0.01, no energy
\* onset) leaves last_beat_time as it was, so the refractory interval of the
\* next call is measured from the last fire of the energy detector.
C30_OnlyEnergyArmsRefractory ==
    [][(ret'.op = "process" /\ ret'.chunk.kind = "samples")
        => /\ an'.last_beat_time # an.last_beat_time => ret'.energy_onset
           /\ ret'.energy_onset => an'.last_beat_time = <<ret'.t>>
           /\ (ret'.flux_beat /\ ~ret'.energy_onset)
                => /\ an'.last_beat_time = an.last_beat_time
                   /\ \A t \in {ret'.t + d : d \in Deltas} :
                         Refractory(an', t) = Refractory(an, t)]_vars

\* a call returned a beat that only the flux detector reported, after the
\* energy detector had fired at an earlier clock reading, which last_beat_time
\* still holds
C30_Witness ==
    /\ Analyzed
    /\ ret.is_beat
    /\ ret.flux_beat
    /\ ~ret.energy_onset
    /\ an.last_beat_time # <<>>
    /\ an.last_beat_time[1] < ret.t
    /\ an.beat_times[Len(an.beat_times)] = ret.t

=============================================================================
